---- MODULE Spec2Model ----
(***************************************************************************)
(* duck-impl: one run of the generator (src/unnamed/part_001, the current  *)
(* main package; src/main.go is the earlier, syntax-only variant).         *)
(*                                                                         *)
(* Text is modelled as sequences of one-character strings, so that         *)
(* strings.Contains, strings.SplitN and the renderers are computed and not *)
(* assumed.  Identifiers (method, parameter and package names) are TLA+    *)
(* strings of one character, or are spelled as character sequences.        *)
(***************************************************************************)
EXTENDS Integers, Sequences, FiniteSets, TLC

(* ------------------------------ bounds -------------------------------- *)

\* Largest number of entries (methods and embeddings) of the interface the
\* run is asked for.
MaxFields == 2

\* Largest number of directories the module-cache glob "<path>@*" matches.
MaxMatches == 2

(* ------------------------------- text --------------------------------- *)

\* strings.Contains(s, sub)
Contains(s, sub) ==
    \E i \in 1..(Len(s) - Len(sub) + 1) : SubSeq(s, i, i + Len(sub) - 1) = sub

\* strings.Join(list, sep)
RECURSIVE Join(_, _)
Join(list, sep) ==
    IF Len(list) = 0 THEN << >>
    ELSE IF Len(list) = 1 THEN list[1]
    ELSE list[1] \o sep \o Join(Tail(list), sep)

\* Position of the first occurrence of character c in s, 0 when absent.
RECURSIVE IndexFrom(_, _, _)
IndexFrom(s, c, i) ==
    IF i > Len(s) THEN 0
    ELSE IF s[i] = c THEN i
    ELSE IndexFrom(s, c, i + 1)

\* strings.LastIndex(s, "."), 1-based, 0 when absent
RECURSIVE LastIndexFrom(_, _, _)
LastIndexFrom(s, c, i) ==
    IF i = 0 THEN 0
    ELSE IF s[i] = c THEN i
    ELSE LastIndexFrom(s, c, i - 1)

\* FirstWord cutting at the last space instead of the first.
FirstWord_LastSpace(param) ==
    LET i == LastIndexFrom(param, " ", Len(param))
    IN  IF i = 0 THEN param ELSE SubSeq(param, 1, i - 1)

\* strings.SplitN(param, " ", 2)[0]
FirstWord(param) ==
    LET i == IndexFrom(param, " ", 1)
    IN  IF i = 0 THEN param ELSE SubSeq(param, 1, i - 1)

\* fmt.Sprintf("%d", j) for the indexes that occur
Digits == <<"0", "1", "2", "3", "4", "5", "6", "7", "8", "9">>
Itoa(j) == IF j < 10 THEN <<Digits[j + 1]>>
           ELSE <<Digits[(j \div 10) + 1], Digits[(j % 10) + 1]>>

\* fmt.Sprintf("%s %s", name, typeStr)
NameType(name, typeStr) == name \o <<" ">> \o typeStr

(* ------------------------- syntax trees (go/ast) ----------------------- *)

NoNode == [kind |-> "nil"]

Ident(name) == [kind |-> "Ident", name |-> name]
\* path is what the type checker resolves the qualifier to; the syntax-only
\* path never reads it.
SelectorExpr(x, sel, path) ==
    [kind |-> "SelectorExpr", x |-> Ident(x), sel |-> sel, path |-> path]
StarExpr(x) == [kind |-> "StarExpr", x |-> x]
SliceType(elt) == [kind |-> "ArrayType", len |-> NoNode, elt |-> elt]
Ellipsis(elt) == [kind |-> "Ellipsis", elt |-> elt]
ArrayType(len, elt) == [kind |-> "ArrayType", len |-> len, elt |-> elt]
BasicLit(value) == [kind |-> "BasicLit", value |-> value]
MapType(key, value) == [kind |-> "MapType", key |-> key, value |-> value]
ChanType(dir, value) == [kind |-> "ChanType", dir |-> dir, value |-> value]
FuncType(params, results) ==
    [kind |-> "FuncType", params |-> params, results |-> results]
InterfaceType == [kind |-> "InterfaceType"]
StructType == [kind |-> "StructType"]
ParenExpr(x) == [kind |-> "ParenExpr", x |-> x]
IndexExpr(x, index) == [kind |-> "IndexExpr", x |-> x, index |-> index]

\* A field of a parameter or result list: zero or more names and one type.
Field(names, type) == [names |-> names, type |-> type]

\* An entry of an interface's method list.
MethodField(name, params, results) ==
    [kind |-> "method", name |-> name, pkg |-> "", params |-> params,
     results |-> results]
EmbedIdent(name) ==
    [kind |-> "embedIdent", name |-> name, pkg |-> "", params |-> << >>,
     results |-> << >>]
EmbedSelector(pkg, name) ==
    [kind |-> "embedSelector", name |-> name, pkg |-> pkg, params |-> << >>,
     results |-> << >>]

(* ------------------------------ rendering ------------------------------ *)

\* fmt.Sprintf("%T", node) for the node kinds outside formatNode's cases
GoTypeName(kind) ==
    <<"*", "a", "s", "t", ".">> \o
    (CASE kind = "Ellipsis" -> <<"E", "l", "l", "i", "p", "s", "i", "s">>
       [] kind = "StructType" ->
            <<"S", "t", "r", "u", "c", "t", "T", "y", "p", "e">>
       [] kind = "ParenExpr" -> <<"P", "a", "r", "e", "n", "E", "x", "p", "r">>
       [] kind = "IndexExpr" -> <<"I", "n", "d", "e", "x", "E", "x", "p", "r">>
       [] OTHER -> <<"E", "x", "p", "r">>)

\* UnsupportedMarker giving the empty text.
UnsupportedMarker_Empty(kind) == << >>

\* Line 699: the default case of formatNode.
UnsupportedMarker(kind) ==
    <<"/", "*", " ", "u", "n", "s", "u", "p", "p", "o", "r", "t", "e", "d",
      ":", " ">> \o GoTypeName(kind) \o <<" ", "*", "/">>

\* A field list as the entries "name type" / "type" that formatFuncParams,
\* formatFuncResults and extractParams all build, given the rendered types.
RECURSIVE FieldEntries(_, _)
FieldEntries(fieldList, typeStrs) ==
    IF Len(fieldList) = 0 THEN << >>
    ELSE LET field == fieldList[1]
             typeStr == typeStrs[1]
             entries ==
                 IF Len(field.names) > 0
                 THEN [k \in 1..Len(field.names) |->
                          NameType(<<field.names[k]>>, typeStr)]
                 ELSE <<typeStr>>
         IN  entries \o FieldEntries(Tail(fieldList), Tail(typeStrs))

\* ast.FieldList.NumFields
RECURSIVE NumFields(_)
NumFields(fieldList) ==
    IF Len(fieldList) = 0 THEN 0
    ELSE (IF Len(fieldList[1].names) = 0 THEN 1 ELSE Len(fieldList[1].names))
         + NumFields(Tail(fieldList))

RECURSIVE formatNode(_)
formatFuncParams(fields) ==
    <<"(">> \o
    Join(FieldEntries(fields, [i \in 1..Len(fields) |-> formatNode(fields[i].type)]),
         <<",", " ">>) \o <<")">>

\* formatFuncResults without the case of a single unnamed result.
formatFuncResults_AlwaysParens(fields) ==
    IF NumFields(fields) = 0 THEN << >>
    ELSE <<" ", "(">> \o
         Join(FieldEntries(fields,
                  [i \in 1..Len(fields) |-> formatNode(fields[i].type)]),
              <<",", " ">>) \o <<")">>

formatFuncResults(fields) ==
    IF NumFields(fields) = 0 THEN << >>
    ELSE IF NumFields(fields) = 1 /\ Len(fields[1].names) = 0
    THEN <<" ">> \o formatNode(fields[1].type)
    ELSE <<" ", "(">> \o
         Join(FieldEntries(fields,
                  [i \in 1..Len(fields) |-> formatNode(fields[i].type)]),
              <<",", " ">>) \o <<")">>

formatNode(n) ==
    CASE n.kind = "Ident" -> n.name
      [] n.kind = "SelectorExpr" -> formatNode(n.x) \o <<".">> \o n.sel
      [] n.kind = "StarExpr" -> <<"*">> \o formatNode(n.x)
      [] n.kind = "ArrayType" ->
            IF n.len = NoNode THEN <<"[", "]">> \o formatNode(n.elt)
            ELSE <<"[">> \o formatNode(n.len) \o <<"]">> \o formatNode(n.elt)
      [] n.kind = "MapType" ->
            <<"m", "a", "p", "[">> \o formatNode(n.key) \o <<"]">> \o
            formatNode(n.value)
      [] n.kind = "InterfaceType" ->
            <<"i", "n", "t", "e", "r", "f", "a", "c", "e", "{", "}">>
      [] n.kind = "FuncType" ->
            <<"f", "u", "n", "c">> \o formatFuncParams(n.params) \o
            formatFuncResults(n.results)
      [] n.kind = "BasicLit" -> n.value
      [] n.kind = "ChanType" ->
            CASE n.dir = "SEND" ->
                    <<"c", "h", "a", "n", "<", "-", " ">> \o formatNode(n.value)
              [] n.dir = "RECV" ->
                    <<"<", "-", "c", "h", "a", "n", " ">> \o formatNode(n.value)
              [] OTHER -> <<"c", "h", "a", "n", " ">> \o formatNode(n.value)
      [] OTHER -> UnsupportedMarker(n.kind)

\* extractParams: one entry per name, or the bare type when the field has
\* no name.
extractParams(fieldList) ==
    FieldEntries(fieldList,
                 [i \in 1..Len(fieldList) |-> formatNode(fieldList[i].type)])

\* The names callParams forwards: the text before the first space of every
\* entry.
paramNames(params) == [i \in 1..Len(params) |-> FirstWord(params[i])]

\* callParams of Generator.Generate
callParams(params) ==
    IF Len(params) = 0 THEN <<"(", ")">>
    ELSE <<"(">> \o Join(paramNames(params), <<",", " ">>) \o <<")">>

(* ------------------------- the sources on disk ------------------------- *)

tInt == Ident(<<"i", "n", "t">>)
ioPath == <<"i", "o">>
fsPath == <<"i", "o", "/", "f", "s">>
\* fs.F, of package io/fs
tFsF == SelectorExpr(<<"f", "s">>, <<"F">>, fsPath)

mA == MethodField("A", <<Field(<<"x">>, tInt)>>, <<Field(<< >>, tInt)>>)
mB == MethodField("B", <<Field(<< >>, tInt)>>, << >>)
mC == MethodField("C", <<Field(<<"a">>, Ellipsis(tInt))>>, << >>)
mD == MethodField("D", << >>, <<Field(<< >>, tFsF)>>)
mG == MethodField("G", <<Field(<<"x", "y">>, tInt)>>,
                  <<Field(<< >>, StarExpr(tFsF))>>)
mH == MethodField("H", << >>, << >>)
mK == MethodField("K", <<Field(<<"f">>, tFsF)>>, <<Field(<< >>, tInt)>>)

\* The order of method names (Go compares them as strings).
NameOrder == <<"A", "B", "C", "D", "G", "H", "K">>
NameRank(name) == CHOOSE i \in 1..Len(NameOrder) : NameOrder[i] = name

InterfaceSpec(fields) == [isInterface |-> TRUE, fields |-> fields]
OtherSpec == [isInterface |-> FALSE, fields |-> << >>]

\* The type declarations of package p, the package an embedded reference
\* p.X names: F declares A; E declares B, embeds p.F and declares D; S is a
\* struct.
LibPackage ==
    [F |-> InterfaceSpec(<<mA>>),
     E |-> InterfaceSpec(<<mB, EmbedSelector("p", "F"), mD>>),
     S |-> OtherSpec]

\* The other type declarations of the package that declares the interface
\* asked for: L declares H.
LocalPackage == [L |-> InterfaceSpec(<<mH>>)]

\* What an entry of the requested interface can be.
FieldUniverse ==
    {mA, mB, mC, mD, mG, mK,
     EmbedSelector("p", "E"), EmbedSelector("p", "F"), EmbedSelector("p", "S"),
     EmbedIdent("L")}

\* The import paths the declaring package can import.
PathUniverse == {ioPath, fsPath}

RECURSIVE SeqsUpTo(_, _)
SeqsUpTo(S, n) ==
    IF n = 0 THEN {<< >>}
    ELSE LET shorter == SeqsUpTo(S, n - 1)
         IN  shorter \cup {Append(q, x) : q \in shorter, x \in S}

\* The declarations the interface asked for can have: entries pairwise
\* different, so that every one of them is legal Go.
Decls ==
    {d \in SeqsUpTo(FieldUniverse, MaxFields) :
        \A i, j \in 1..Len(d) : i # j => d[i] # d[j]}

(* ---------------------- syntactic extraction (go/ast) ------------------ *)

NilImports == << >>

Method(name, params, results, imports) ==
    [MethodName |-> name, Parameters |-> params, Results |-> results,
     Imports |-> imports]

\* The named-method branch of extractMethodsFromInterface.
astMethod(field) ==
    Method(field.name, extractParams(field.params),
           extractParams(field.results), NilImports)

RECURSIVE extractMethodsFromInterface(_, _)
\* findEmbeddedInterfaceMethods looking the package up wherever it is, not
\* only among the packages parsed in the standard distribution directory.
findEmbeddedInterfaceMethods_AnyPackage(interfaceName, pkgName, stdLibPkgs) ==
    IF pkgName = "p"
    THEN IF interfaceName \in DOMAIN LibPackage
            /\ LibPackage[interfaceName].isInterface
         THEN extractMethodsFromInterface(LibPackage[interfaceName].fields,
                                          stdLibPkgs)
         ELSE << >>
    ELSE << >>

\* stdLibPkgs maps the names of the packages parsed in the standard
\* distribution directory to their type declarations; a nil map has an empty
\* domain.
findEmbeddedInterfaceMethods(interfaceName, pkgName, stdLibPkgs) ==
    IF pkgName # "" /\ pkgName \in DOMAIN stdLibPkgs
    THEN LET pkg == stdLibPkgs[pkgName]
         IN  IF interfaceName \in DOMAIN pkg /\ pkg[interfaceName].isInterface
             THEN extractMethodsFromInterface(pkg[interfaceName].fields,
                                              stdLibPkgs)
             ELSE << >>
    ELSE << >>

\* What one entry of the method list appends to methods.
extractField(field, stdLibPkgs) ==
    CASE field.kind = "method" -> <<astMethod(field)>>
      [] field.kind = "embedIdent" ->
            findEmbeddedInterfaceMethods(field.name, "", stdLibPkgs)
      [] field.kind = "embedSelector" ->
            findEmbeddedInterfaceMethods(field.name, field.pkg, stdLibPkgs)

\* extractMethodsFromInterface, appending what the embedded interfaces give
\* after all the directly declared methods.
extractMethodsFromInterface_EmbeddedLast(fields, stdLibPkgs) ==
    LET RECURSIVE Gather(_)
        Gather(fs) ==
            IF Len(fs) = 0 THEN << >>
            ELSE extractField(fs[1], stdLibPkgs) \o Gather(Tail(fs))
    IN  Gather(SelectSeq(fields, LAMBDA f : f.kind = "method")) \o
        Gather(SelectSeq(fields, LAMBDA f : f.kind # "method"))

extractMethodsFromInterface(fields, stdLibPkgs) ==
    IF Len(fields) = 0 THEN << >>
    ELSE extractField(fields[1], stdLibPkgs) \o
         extractMethodsFromInterface(Tail(fields), stdLibPkgs)

(* ------------------------ typed extraction (go/types) ------------------ *)

pPath == <<"p">>

\* The packages the two declaring packages import (types.Package.Imports).
LibImports == {fsPath}

\* The import paths the requested interface's own package must import for
\* the declaration to compile.
RECURSIVE NodePaths(_)
NodePaths(n) ==
    CASE n.kind = "SelectorExpr" -> {n.path}
      [] n.kind \in {"StarExpr"} -> NodePaths(n.x)
      [] n.kind \in {"ArrayType", "Ellipsis"} -> NodePaths(n.elt)
      [] OTHER -> {}

FieldListPaths(fieldList) ==
    UNION {NodePaths(fieldList[i].type) : i \in 1..Len(fieldList)}

\* The packages whose symbols the signature of a method entry uses.
MethodPaths(field) == FieldListPaths(field.params) \cup FieldListPaths(field.results)

RequiredImports(decl) ==
    UNION {IF decl[i].kind = "method" THEN MethodPaths(decl[i])
           ELSE IF decl[i].kind = "embedSelector" THEN {pPath} ELSE {} :
           i \in 1..Len(decl)}

\* The declaration an embedded reference denotes for the type checker.
TypedResolve(field) ==
    IF field.kind = "embedSelector" THEN LibPackage[field.name]
    ELSE LocalPackage[field.name]

\* The package a declaration reached through an embedded reference is in.
EmbedOrigin(field, origin) ==
    IF field.kind = "embedSelector" THEN "lib" ELSE origin

\* The methods of an interface as the type checker collects them: the
\* explicitly declared ones first, then those of each embedded interface,
\* each with the package that declares it.
RECURSIVE TypedCollect(_, _)
TypedCollect(fields, origin) ==
    LET explicit == SelectSeq(fields, LAMBDA f : f.kind = "method")
        embeds == SelectSeq(fields, LAMBDA f : f.kind # "method")
        own == [i \in 1..Len(explicit) |->
                   [field |-> explicit[i], origin |-> origin]]
        RECURSIVE FromEmbeds(_)
        FromEmbeds(es) ==
            IF Len(es) = 0 THEN << >>
            ELSE (IF TypedResolve(es[1]).isInterface
                  THEN TypedCollect(TypedResolve(es[1]).fields,
                                    EmbedOrigin(es[1], origin))
                  ELSE << >>) \o FromEmbeds(Tail(es))
    IN  own \o FromEmbeds(embeds)

\* A method already seen under the same name is kept, the later one dropped.
RECURSIVE KeepFirst(_, _)
KeepFirst(ms, seen) ==
    IF Len(ms) = 0 THEN << >>
    ELSE IF ms[1].field.name \in seen THEN KeepFirst(Tail(ms), seen)
    ELSE <<ms[1]>> \o KeepFirst(Tail(ms), seen \cup {ms[1].field.name})

SeqRange(q) == {q[i] : i \in 1..Len(q)}

\* types.Interface.Method(i): "The methods are ordered by their unique Id",
\* that is by name.
RECURSIVE SortByName(_)
SortByName(S) ==
    IF S = {} THEN << >>
    ELSE LET m == CHOOSE x \in S :
                     \A y \in S : NameRank(x.field.name) <= NameRank(y.field.name)
         IN  <<m>> \o SortByName(S \ {m})

\* iface.NumMethods() / iface.Method(i)
TypeSetMethods(decl) == SortByName(SeqRange(KeepFirst(TypedCollect(decl, "own"), {})))

\* types.TypeString(t, qf); qual is what qf returns for a package: its name
\* ("name"), the empty string ("none"), or, for a nil qf, its path ("path").
\* A variadic parameter's type is the slice of its element type.
RECURSIVE TypeString(_, _)
TypeString(t, qual) ==
    CASE t.kind = "Ident" -> t.name
      [] t.kind = "SelectorExpr" ->
            (CASE qual = "name" -> t.x.name \o <<".">>
               [] qual = "path" -> t.path \o <<".">>
               [] OTHER -> << >>) \o t.sel
      [] t.kind = "StarExpr" -> <<"*">> \o TypeString(t.x, qual)
      [] t.kind \in {"ArrayType", "Ellipsis"} ->
            <<"[", "]">> \o TypeString(t.elt, qual)

\* The variables of a parameter or result tuple: one per name, or one with
\* the empty name for an unnamed field.
RECURSIVE Vars(_)
Vars(fieldList) ==
    IF Len(fieldList) = 0 THEN << >>
    ELSE LET f == fieldList[1]
         IN  (IF Len(f.names) = 0 THEN <<[name |-> << >>, type |-> f.type]>>
              ELSE [k \in 1..Len(f.names) |->
                       [name |-> <<f.names[k]>>, type |-> f.type]])
             \o Vars(Tail(fieldList))

\* types.Object.String() of a parameter or result: "var <name> <type>", the
\* type with full package paths.
OriginString(v) ==
    <<"v", "a", "r", " ">> \o v.name \o <<" ">> \o TypeString(v.type, "path")

\* for _, import_path := range v.Pkg().Imports() { imports[path] = ... }
SetImports(imports, v, pkgImports) ==
    [path \in (DOMAIN imports) \cup pkgImports |->
        IF path \in pkgImports THEN Contains(OriginString(v), path)
        ELSE imports[path]]

RECURSIVE CollectImports(_, _, _)
CollectImports(imports, vars, pkgImports) ==
    IF Len(vars) = 0 THEN imports
    ELSE CollectImports(SetImports(imports, vars[1], pkgImports), Tail(vars),
                        pkgImports)

\* The parameter strings of the typed path.
typedParams(vars, variadic) ==
    [k \in 1..Len(vars) |->
        LET j == k - 1
            paramTypeStr ==
                IF variadic /\ j = Len(vars) - 1
                THEN <<".", ".", ".">> \o TypeString(vars[k].type.elt, "none")
                ELSE TypeString(vars[k].type, "name")
            paramName ==
                IF vars[k].name = << >> THEN <<"a", "r", "g">> \o Itoa(j)
                ELSE vars[k].name
        IN  NameType(paramName, paramTypeStr)]

\* The result strings of the typed path.
typedResults(vars) ==
    [k \in 1..Len(vars) |->
        IF vars[k].name = << >> THEN TypeString(vars[k].type, "name")
        ELSE NameType(vars[k].name, TypeString(vars[k].type, "name"))]

\* One iteration of the method loop of parseInterfaceWithTypes.
typedMethod(m, ownImports) ==
    LET params == Vars(m.field.params)
        results == Vars(m.field.results)
        variadic == Len(params) > 0 /\ params[Len(params)].type.kind = "Ellipsis"
        pkgImports == IF m.origin = "lib" THEN LibImports ELSE ownImports
        imports == CollectImports(CollectImports(NilImports, params, pkgImports),
                                  results, pkgImports)
    IN  Method(m.field.name, typedParams(params, variadic), typedResults(results),
               IF Len(results) > 0 THEN imports ELSE NilImports)

typedMethods(decl, ownImports) ==
    LET ms == TypeSetMethods(decl)
    IN  [i \in 1..Len(ms) |-> typedMethod(ms[i], ownImports)]

(* --------------------------- the run of main --------------------------- *)

\* SplitRight cutting at the first separator instead of the last.
SplitRight_First(s, sep) ==
    LET idx == IndexFrom(s, sep, 1)
    IN  IF idx = 0 THEN <<s>>
        ELSE <<SubSeq(s, 1, idx - 1), SubSeq(s, idx + 1, Len(s))>>

\* SplitRight, lines 107-113
SplitRight(s, sep) ==
    LET idx == LastIndexFrom(s, sep, Len(s))
    IN  IF idx = 0 THEN <<s>>
        ELSE <<SubSeq(s, 1, idx - 1), SubSeq(s, idx + 1, Len(s))>>

\* The -interface values of the runs: absent, unqualified, qualified by a
\* one-segment path, qualified by a path with dots and slashes.
RefUniverse ==
    {<< >>, <<"I">>, <<"p", ".", "I">>, <<"g", ".", "c", "/", "p", ".", "I">>}

\* packages.Config.Mode with the imports and dependencies requested too.
LoadMode_WithDeps ==
    {"NeedName", "NeedTypes", "NeedTypesInfo", "NeedSyntax", "NeedImports",
     "NeedDeps"}

\* packages.Config.Mode, line 176
LoadMode == {"NeedName", "NeedTypes", "NeedTypesInfo", "NeedSyntax"}

\* Where a symbol of the requested name can be declared: in the loaded
\* package, in a package it imports.
LookupPlaces == {"own", "imported"}

\* pkg.Imports of the loaded package: packages.Load fills the fields the
\* mode asks for and clears the others, so without NeedImports the map is
\* nil whatever the package imports.
PkgImports(places) ==
    IF "NeedImports" \in LoadMode THEN places \ {"own"} ELSE {}

\* Lines 206-216: the scope of the loaded package, then the scopes of the
\* packages of pkg.Imports; "nil" when obj stays nil.
TypedLookup(declaredIn) ==
    IF "own" \in declaredIn THEN "own"
    ELSE IF PkgImports(declaredIn) # {} THEN "imported"
    ELSE "nil"

\* The package the typed path found the declaration in: the workspace
\* package (the reference has no qualifier), the package the qualifier
\* names, or a package imported by the loaded one.
TypedHost(found, qualifier) ==
    IF found = "imported" THEN "imported"
    ELSE IF qualifier = << >> THEN "workspace"
    ELSE "loaded"

\* Why parseInterfaceWithTypes can fail.
TypedFailures ==
    {"goListFailed", "loadError", "noPackages", "packageErrors", "notFound",
     "notNamed", "notInterface"}

\* What a directory of the search can hold: nothing there, sources that do
\* not parse, a package without the declaration, a package with it.
DirStates == {"absent", "bad", "nodecl", "decl"}

\* The packages parser.ParseDir can return for the standard-distribution
\* directory: with or without package p.
StdPkgChoices == {<< >>, [p |-> LibPackage]}

VARIABLES
    pc,            \* where the run is
    flags,         \* the command line: struct, interface, outputFile
    decl,          \* the declaration of the requested interface in the sources
    pkgPath,       \* parseInterface: the qualifier
    intName,       \* parseInterface: the interface name
    typedResult,   \* what parseInterfaceWithTypes returned, "unset" before
    astCalls,      \* number of calls of parseInterfaceWithAST
    interfaceType, \* parseInterfaceWithAST: "nil", or where it was found
    declSeen,      \* a directory the search examined holds the declaration
    passedOver,    \* a directory the search went to was missing or unparseable
    stdPkgs,       \* parseInterfaceWithAST: the packages of the std directory
    astResult,     \* what parseInterfaceWithAST returned, "unset" before
    result,        \* what parseInterface returned, "unset" before
    imports,       \* Generator.Imports
    fileCreated,   \* os.Create(OutputFile) has succeeded
    output,        \* what the template wrote to the output file
    job,           \* the arguments of a call of a formatting function
    out            \* what that call returned, "unset" before

vars == <<pc, flags, decl, pkgPath, intName, typedResult, astCalls,
          interfaceType, declSeen, passedOver, stdPkgs, astResult, result, imports,
          fileCreated, output, job, out>>

Unset == [set |-> FALSE]
NoJob == [kind |-> "none"]
NoOutput == [written |-> FALSE]
Return(methods, host, err) ==
    [set |-> TRUE, methods |-> methods, hostPkgName |-> host, err |-> err]

Init ==
    /\ pc = "start"
    /\ flags \in [structName : BOOLEAN, interfaceName : RefUniverse,
                  outputFile : BOOLEAN]
    /\ decl \in Decls
    /\ pkgPath = << >>
    /\ intName = << >>
    /\ typedResult = Unset
    /\ astCalls = 0
    /\ interfaceType = "nil"
    /\ declSeen = FALSE
    /\ passedOver = FALSE
    /\ stdPkgs = << >>
    /\ astResult = Unset
    /\ result = Unset
    /\ imports = << >>
    /\ fileCreated = FALSE
    /\ output = NoOutput
    /\ job = NoJob
    /\ out = Unset

\* main, lines 42-62: the required flags, then os.Getwd.
MainStart ==
    /\ pc = "start"
    /\ IF ~flags.structName \/ flags.interfaceName = << >> \/ ~flags.outputFile
       THEN pc' = "fatal"
       ELSE \E getwdOk \in BOOLEAN :
                pc' = IF getwdOk THEN "parseInterface" ELSE "fatal"
    /\ UNCHANGED <<flags, decl, pkgPath, intName, typedResult, astCalls,
                   interfaceType, declSeen, passedOver, stdPkgs, astResult,
                   result, imports, fileCreated, output, job, out>>

\* parseInterface, lines 117-129: the reference is split and
\* parseInterfaceWithTypes runs; it fails for one of TypedFailures or returns
\* the methods of the type checker's method set.
ParseInterfaceWithTypes ==
    /\ pc = "parseInterface"
    /\ LET parts == SplitRight(flags.interfaceName, ".")
           qualifier == IF Len(parts) > 1 THEN parts[1] ELSE << >>
       IN  /\ pkgPath' = qualifier
           /\ intName' = IF Len(parts) > 1 THEN parts[Len(parts)]
                         ELSE flags.interfaceName
           /\ \/ \E ownImports \in SUBSET (PathUniverse \cup {pPath}),
                    declaredIn \in SUBSET LookupPlaces :
                    /\ TypedLookup(declaredIn) # "nil"
                    /\ RequiredImports(decl) \subseteq ownImports
                    /\ typedResult' =
                          Return(typedMethods(decl, ownImports),
                                 TypedHost(TypedLookup(declaredIn), qualifier),
                                 "nil")
              \/ \E cause \in TypedFailures :
                    /\ cause = "goListFailed" => qualifier = << >>
                    /\ typedResult' = Return(<< >>, "", cause)
    /\ pc' = "typedReturned"
    /\ UNCHANGED <<flags, decl, astCalls, interfaceType, declSeen, passedOver,
                   stdPkgs, astResult, result, imports, fileCreated, output,
                   job, out>>

\* ParseInterfaceDispatch, returning the typed path's error to the caller
\* when the symbol is not a named type.
ParseInterfaceDispatch_ReturnsTypedError ==
    /\ pc = "typedReturned"
    /\ IF typedResult.err \in {"nil", "notNamed"}
       THEN /\ result' = typedResult
            /\ typedResult' = typedResult
            /\ pc' = "returned"
       ELSE /\ result' = result
            /\ typedResult' = Return(<< >>, "", "logged")
            /\ pc' = "ast"
    /\ UNCHANGED <<flags, decl, pkgPath, intName, astCalls, interfaceType,
                   declSeen, passedOver, stdPkgs, astResult, imports,
                   fileCreated, output, job, out>>

\* parseInterface, lines 130-135: a typed success is returned at once; a
\* typed error is written to the debug log, not used again, and the
\* syntactic path is taken.
ParseInterfaceDispatch ==
    /\ pc = "typedReturned"
    /\ IF typedResult.err = "nil"
       THEN /\ result' = typedResult
            /\ typedResult' = typedResult
            /\ pc' = "returned"
       ELSE /\ result' = result
            /\ typedResult' = Return(<< >>, "", "logged")
            /\ pc' = "ast"
    /\ UNCHANGED <<flags, decl, pkgPath, intName, astCalls, interfaceType,
                   declSeen, passedOver, stdPkgs, astResult, imports,
                   fileCreated, output, job, out>>

\* parseInterfaceWithAST, lines 325-338: the workspace directory is parsed
\* first, whatever the reference.
AstParseDir ==
    /\ pc = "ast"
    /\ astCalls' = astCalls + 1
    /\ \E parsed \in BOOLEAN :
          IF ~parsed
          THEN /\ astResult' = Return(<< >>, "", "could not parse directory")
               /\ pc' = "astReturned"
          ELSE /\ astResult' = astResult
               /\ pc' = IF pkgPath # << >> THEN "astStd" ELSE "astLocal"
    /\ UNCHANGED <<flags, decl, pkgPath, intName, typedResult, interfaceType,
                   declSeen, passedOver, stdPkgs, result, imports, fileCreated,
                   output, job, out>>

\* Lines 531-563: an unqualified name is looked for in the workspace package.
AstLocal ==
    /\ pc = "astLocal"
    /\ \E declared \in BOOLEAN :
          /\ interfaceType' = IF declared THEN "local" ELSE "nil"
          /\ declSeen' = declared
    /\ pc' = "astFinish"
    /\ UNCHANGED <<flags, decl, pkgPath, intName, typedResult, astCalls,
                   stdPkgs, passedOver, astResult, result, imports,
                   fileCreated, output, job, out>>

\* AstStd without the test of line 389: the module directory is searched
\* also when the standard distribution holds the declaration.
AstStd_SearchesOn ==
    /\ pc = "astStd"
    /\ \E dir \in DirStates, pkgs \in StdPkgChoices :
          /\ dir = "absent" => pkgs = << >>
          /\ stdPkgs' = pkgs
          /\ interfaceType' = IF dir = "decl" THEN "std" ELSE "nil"
          /\ declSeen' = (dir = "decl")
          /\ passedOver' = (dir \in {"absent", "bad"})
          /\ pc' = "astModule"
    /\ UNCHANGED <<flags, decl, pkgPath, intName, typedResult, astCalls,
                   astResult, result, imports, fileCreated, output, job, out>>

\* Lines 344-386: the standard-distribution directory.  parser.ParseDir
\* returns the packages it could parse also when it reports an error, and
\* the search is skipped then.
AstStd ==
    /\ pc = "astStd"
    /\ \E dir \in DirStates, pkgs \in StdPkgChoices :
          /\ dir = "absent" => pkgs = << >>
          /\ stdPkgs' = pkgs
          /\ interfaceType' = IF dir = "decl" THEN "std" ELSE "nil"
          /\ declSeen' = (dir = "decl")
          /\ passedOver' = (dir \in {"absent", "bad"})
          /\ pc' = IF dir = "decl" THEN "astFinish" ELSE "astModule"
    /\ UNCHANGED <<flags, decl, pkgPath, intName, typedResult, astCalls,
                   astResult, result, imports, fileCreated, output, job, out>>

\* Lines 389-455: the directory findModulePath gives, if it gives one.
AstModule ==
    /\ pc = "astModule"
    /\ \E dir \in DirStates :
          /\ interfaceType' = IF dir = "decl" THEN "module" ELSE "nil"
          /\ declSeen' = (dir = "decl")
          /\ passedOver' = (passedOver \/ dir \in {"absent", "bad"})
          /\ pc' = IF dir = "decl" THEN "astFinish" ELSE "astGopath"
    /\ UNCHANGED <<flags, decl, pkgPath, intName, typedResult, astCalls,
                   stdPkgs, astResult, result, imports, fileCreated, output,
                   job, out>>

\* The first directory of a list that holds the declaration, 0 when none.
RECURSIVE FirstDecl(_, _)
FirstDecl(dirs, i) ==
    IF i > Len(dirs) THEN 0
    ELSE IF dirs[i] = "decl" THEN i
    ELSE FirstDecl(dirs, i + 1)

\* Lines 457-529, possiblePaths[0]: the directory under GOPATH/src; a
\* directory that is absent or does not parse is passed over.
AstGopath ==
    /\ pc = "astGopath"
    /\ \E dir \in DirStates :
          /\ interfaceType' = IF dir = "decl" THEN "gopath" ELSE "nil"
          /\ declSeen' = (dir = "decl")
          /\ passedOver' = (passedOver \/ dir \in {"absent", "bad"})
          /\ pc' = IF dir = "decl" THEN "astFinish" ELSE "astModcache"
    /\ UNCHANGED <<flags, decl, pkgPath, intName, typedResult, astCalls,
                   stdPkgs, astResult, result, imports, fileCreated, output,
                   job, out>>

\* possiblePaths[1]: the matches of the module-cache pattern <path>@*, in
\* the order filepath.Glob gives them, up to the first that holds the
\* declaration; no match is an absent directory.
AstModcache ==
    /\ pc = "astModcache"
    /\ \E matches \in SeqsUpTo(DirStates \ {"absent"}, MaxMatches) :
          LET k == FirstDecl(matches, 1)
              tried == IF k = 0 THEN matches ELSE SubSeq(matches, 1, k)
          IN  /\ interfaceType' = IF k = 0 THEN "nil" ELSE "modcache"
              /\ declSeen' = (k # 0)
              /\ passedOver' = (\/ passedOver
                                \/ matches = << >>
                                \/ \E i \in 1..Len(tried) : tried[i] = "bad")
              /\ pc' = IF k # 0 THEN "astFinish" ELSE "astVendor"
    /\ UNCHANGED <<flags, decl, pkgPath, intName, typedResult, astCalls,
                   stdPkgs, astResult, result, imports, fileCreated, output,
                   job, out>>

\* possiblePaths[2]: the vendor directory of the workspace.
AstVendor ==
    /\ pc = "astVendor"
    /\ \E dir \in DirStates :
          /\ interfaceType' = IF dir = "decl" THEN "vendor" ELSE "nil"
          /\ declSeen' = (dir = "decl")
          /\ passedOver' = (passedOver \/ dir \in {"absent", "bad"})
    /\ pc' = "astFinish"
    /\ UNCHANGED <<flags, decl, pkgPath, intName, typedResult, astCalls,
                   stdPkgs, astResult, result, imports, fileCreated, output,
                   job, out>>

\* AstFinish without the nil check: no declaration gives an empty method
\* list and no error.
AstFinish_NoNilCheck ==
    /\ pc = "astFinish"
    /\ astResult' =
          IF interfaceType = "nil"
          THEN Return(<< >>, "", "nil")
          ELSE Return(extractMethodsFromInterface(decl, stdPkgs),
                      interfaceType, "nil")
    /\ pc' = "astReturned"
    /\ UNCHANGED <<flags, decl, pkgPath, intName, typedResult, astCalls,
                   interfaceType, declSeen, passedOver, stdPkgs, result,
                   imports, fileCreated, output, job, out>>

\* Lines 564-570: not found is an error; otherwise the methods are
\* extracted.
AstFinish ==
    /\ pc = "astFinish"
    /\ astResult' =
          IF interfaceType = "nil"
          THEN Return(<< >>, "", "interface not found")
          ELSE Return(extractMethodsFromInterface(decl, stdPkgs),
                      interfaceType, "nil")
    /\ pc' = "astReturned"
    /\ UNCHANGED <<flags, decl, pkgPath, intName, typedResult, astCalls,
                   interfaceType, declSeen, passedOver, stdPkgs, result,
                   imports, fileCreated, output, job, out>>

\* parseInterface, line 138: the fallback's result is returned as it is.
ParseInterfaceFallbackReturn ==
    /\ pc = "astReturned"
    /\ result' = astResult
    /\ pc' = "returned"
    /\ UNCHANGED <<flags, decl, pkgPath, intName, typedResult, astCalls,
                   interfaceType, declSeen, passedOver, stdPkgs, astResult,
                   imports, fileCreated, output, job, out>>

(* ----------------------------- the template ---------------------------- *)

UpperCase == <<"A", "B", "C", "D", "E", "F", "G", "H", "I", "J", "K", "L", "M",
               "N", "O", "P", "Q", "R", "S", "T", "U", "V", "W", "X", "Y", "Z">>
LowerCase == <<"a", "b", "c", "d", "e", "f", "g", "h", "i", "j", "k", "l", "m",
               "n", "o", "p", "q", "r", "s", "t", "u", "v", "w", "x", "y", "z">>

\* strings.ToLower
toLower(s) ==
    [i \in 1..Len(s) |->
        IF \E k \in 1..26 : UpperCase[k] = s[i]
        THEN LowerCase[CHOOSE k \in 1..26 : UpperCase[k] = s[i]]
        ELSE s[i]]

\* The template function clean: the last part of strings.Split(s, ".").
clean(s) ==
    LET idx == LastIndexFrom(s, ".", Len(s))
    IN  IF idx = 0 THEN s ELSE SubSeq(s, idx + 1, Len(s))

formatMethodParams(params) ==
    IF Len(params) = 0 THEN <<"(", ")">>
    ELSE <<"(">> \o Join(params, <<",", " ">>) \o <<")">>

formatMethodResults(results) ==
    IF Len(results) = 0 THEN << >>
    ELSE <<" ", "(">> \o Join(results, <<",", " ">>) \o <<")">>

hasResults(results) == Len(results) > 0

\* The value of the -struct flag when it is given.
StructNameText == <<"S">>

\* tmpl executed on a Generator: the lines of the import block, the struct
\* declaration with its field lines, one method declaration (header line
\* and body line) per method, the alias declaration.
Execute(structName, interfaceName, methods, importList) ==
    LET iface == <<"_">> \o clean(interfaceName) \o <<"_">>
        impl == toLower(clean(interfaceName)) \o <<"_", "i", "m", "p", "l">>
        sig(m) == formatMethodParams(m.Parameters) \o
                  formatMethodResults(m.Results)
    IN  [written |-> TRUE,
         importLines |->
             [i \in 1..Len(importList) |->
                 <<"\t", "\"">> \o importList[i] \o <<"\"">>],
         structLine |->
             <<"t", "y", "p", "e", " ">> \o iface \o
             <<" ", "s", "t", "r", "u", "c", "t", " ", "{">>,
         fieldLines |->
             [i \in 1..Len(methods) |->
                 <<"\t", methods[i].MethodName, "_", " ", "f", "u", "n", "c">>
                 \o sig(methods[i])],
         funcs |->
             [i \in 1..Len(methods) |->
                 [header |->
                      <<"f", "u", "n", "c", " ", "(">> \o impl \o <<" ">> \o
                      iface \o <<")", " ", methods[i].MethodName>> \o
                      sig(methods[i]) \o <<" ", "{">>,
                  body |->
                      <<"\t">> \o
                      (IF hasResults(methods[i].Results)
                       THEN <<"r", "e", "t", "u", "r", "n", " ">> ELSE << >>)
                      \o impl \o <<".", methods[i].MethodName, "_">> \o
                      callParams(methods[i].Parameters)]],
         aliasLine |->
             <<"t", "y", "p", "e", " ">> \o structName \o <<" ", "=", " ">> \o
             iface]

\* The orders in which a map's keys that are in use can be appended.
RECURSIVE Orders(_)
Orders(S) ==
    IF S = {} THEN {<< >>}
    ELSE UNION {{<<x>> \o rest : rest \in Orders(S \ {x})} : x \in S}

InUse(method) == {path \in DOMAIN method.Imports : method.Imports[path]}

\* main, lines 82-90: every path in use of every method is appended; Go
\* ranges over a map in an unspecified order.
RECURSIVE ImportLists(_)
ImportLists(methods) ==
    IF Len(methods) = 0 THEN {<< >>}
    ELSE {first \o rest : first \in Orders(InUse(methods[1])),
                          rest \in ImportLists(Tail(methods))}

\* MainAfterParse without the error check of lines 66-68.
MainAfterParse_IgnoresError ==
    /\ pc = "returned"
    /\ pc' = "generate"
    /\ imports' \in ImportLists(result.methods)
    /\ UNCHANGED <<flags, decl, pkgPath, intName, typedResult, astCalls,
                   interfaceType, declSeen, passedOver, stdPkgs, astResult,
                   result, fileCreated, output, job, out>>

\* main, lines 65-100: a failed parseInterface ends the run; otherwise the
\* Generator is filled in.
MainAfterParse ==
    /\ pc = "returned"
    /\ IF result.err # "nil"
       THEN /\ pc' = "fatal"
            /\ imports' = imports
       ELSE /\ pc' = "generate"
            /\ imports' \in ImportLists(result.methods)
    /\ UNCHANGED <<flags, decl, pkgPath, intName, typedResult, astCalls,
                   interfaceType, declSeen, passedOver, stdPkgs, astResult,
                   result, fileCreated, output, job, out>>

\* Generator.Generate: the output file is created, then the template is
\* executed into it.
Generate ==
    /\ pc = "generate"
    /\ \E created \in BOOLEAN, executed \in BOOLEAN :
          /\ fileCreated' = created
          /\ output' = IF created /\ executed
                       THEN Execute(StructNameText, flags.interfaceName,
                                    result.methods, imports)
                       ELSE NoOutput
          /\ pc' = IF created /\ executed THEN "done" ELSE "fatal"
    /\ UNCHANGED <<flags, decl, pkgPath, intName, typedResult, astCalls,
                   interfaceType, declSeen, passedOver, stdPkgs, astResult,
                   result, imports, job, out>>

Next ==
    \/ MainStart
    \/ ParseInterfaceWithTypes
    \/ ParseInterfaceDispatch
    \/ AstParseDir
    \/ AstLocal
    \/ AstStd
    \/ AstModule
    \/ AstGopath
    \/ AstModcache
    \/ AstVendor
    \/ AstFinish
    \/ ParseInterfaceFallbackReturn
    \/ MainAfterParse
    \/ Generate

Spec == Init /\ [][Next]_vars

(* -------------------- the formatting functions alone ------------------- *)

\* How deep the type expressions given to formatNode are nested.
MaxDepth == 1

tError == Ident(<<"e", "r", "r", "o", "r">>)
tString == Ident(<<"s", "t", "r", "i", "n", "g">>)

LeafNodes == {tInt, tFsF, InterfaceType, StructType}

\* The type expressions of at most the given depth: every case of
\* formatNode, and the kinds it has no case for.
RECURSIVE Nodes(_)
Nodes(d) ==
    IF d = 0 THEN LeafNodes
    ELSE LET sub == Nodes(d - 1)
         IN  sub
             \cup {StarExpr(x) : x \in sub}
             \cup {SliceType(x) : x \in sub}
             \cup {ArrayType(BasicLit(<<"4">>), x) : x \in sub}
             \cup {MapType(tString, x) : x \in sub}
             \cup {ChanType(dir, x) : dir \in {"SEND", "RECV", "BOTH"}, x \in sub}
             \cup {FuncType(<<Field(<<"a">>, x)>>, <<Field(<< >>, tError)>>) :
                      x \in sub}
             \cup {FuncType(<< >>, <<Field(<< >>, x)>>) : x \in sub}
             \cup {Ellipsis(x) : x \in sub}
             \cup {ParenExpr(x) : x \in sub}
             \cup {IndexExpr(x, tInt) : x \in sub}

NodeJobs == {[kind |-> "node", node |-> n] : n \in Nodes(MaxDepth)}

\* Result lists: fields with no, one or two names.
ResultFields ==
    {Field(names, t) : names \in {<< >>, <<"r">>, <<"r", "s">>},
                       t \in {tInt, tFsF, SliceType(tInt)}}
ResultJobs ==
    {[kind |-> "results", fields |-> fl] : fl \in SeqsUpTo(ResultFields, MaxFields)}

\* Named parameters, of types whose text has no, one or several spaces:
\* int, func(a int) error, chan int, map[string]chan<- int.
CallFields ==
    {Field(<<name>>, t) :
        name \in {"f", "c"},
        t \in {tInt,
               FuncType(<<Field(<<"a">>, tInt)>>, <<Field(<< >>, tError)>>),
               ChanType("BOTH", tInt),
               MapType(tString, ChanType("SEND", tInt))}}
CallJobs ==
    {[kind |-> "call", fields |-> fl] : fl \in SeqsUpTo(CallFields, MaxFields)}

\* Signatures with a variadic last parameter, as the type checker gives them.
VariadicElems == {tInt, tFsF, StarExpr(tFsF), SliceType(tFsF)}
VariadicJobs ==
    {[kind |-> "variadic",
      fields |-> Append(before, Field(<<"a">>, Ellipsis(t)))] :
        before \in {<< >>, <<Field(<<"x">>, tInt)>>, <<Field(<<"x">>, tFsF)>>},
        t \in VariadicElems}

\* The signature with the element type of the last parameter as the type of
\* a parameter that is not variadic.
NonVariadic(fields) ==
    [fields EXCEPT ![Len(fields)] = Field(@.names, @.type.elt)]

InitFormat ==
    /\ pc = "format"
    /\ flags = [structName |-> FALSE, interfaceName |-> << >>,
                outputFile |-> FALSE]
    /\ decl = << >>
    /\ pkgPath = << >>
    /\ intName = << >>
    /\ typedResult = Unset
    /\ astCalls = 0
    /\ interfaceType = "nil"
    /\ declSeen = FALSE
    /\ passedOver = FALSE
    /\ stdPkgs = << >>
    /\ astResult = Unset
    /\ result = Unset
    /\ imports = << >>
    /\ fileCreated = FALSE
    /\ output = NoOutput
    /\ job \in NodeJobs \cup ResultJobs \cup CallJobs \cup VariadicJobs
    /\ out = Unset

\* formatNode on a type expression, and the extraction of an interface
\* with a method M that has a parameter of that type, and a method H.
FormatNodeCall ==
    /\ pc = "format" /\ job.kind = "node" /\ ~out.set
    /\ out' = [set |-> TRUE,
               text |-> formatNode(job.node),
               methods |->
                   extractMethodsFromInterface(
                       <<MethodField("M", <<Field(<<"x">>, job.node)>>, << >>),
                         mH>>, << >>)]
    /\ pc' = "formatted"
    /\ UNCHANGED <<flags, decl, pkgPath, intName, typedResult, astCalls,
                   interfaceType, declSeen, passedOver, stdPkgs, astResult,
                   result, imports, fileCreated, output, job>>

\* formatFuncResults on a result list, and formatMethodResults on the
\* entries extractParams builds for the same list.
FormatFuncResultsCall ==
    /\ pc = "format" /\ job.kind = "results" /\ ~out.set
    /\ out' = [set |-> TRUE, text |-> formatFuncResults(job.fields),
               method |-> formatMethodResults(extractParams(job.fields))]
    /\ pc' = "formatted"
    /\ UNCHANGED <<flags, decl, pkgPath, intName, typedResult, astCalls,
                   interfaceType, declSeen, passedOver, stdPkgs, astResult,
                   result, imports, fileCreated, output, job>>

\* callParams on the entries extractParams builds for a parameter list.
CallParamsCall ==
    /\ pc = "format" /\ job.kind = "call" /\ ~out.set
    /\ out' = [set |-> TRUE, text |-> callParams(extractParams(job.fields))]
    /\ pc' = "formatted"
    /\ UNCHANGED <<flags, decl, pkgPath, intName, typedResult, astCalls,
                   interfaceType, declSeen, passedOver, stdPkgs, astResult,
                   result, imports, fileCreated, output, job>>

\* Lines 248-272: the parameter strings of a variadic signature, and those
\* of the signature with the element type in a position that is not variadic.
TypedParamsCall ==
    /\ pc = "format" /\ job.kind = "variadic" /\ ~out.set
    /\ out' = [set |-> TRUE,
               params |-> typedParams(Vars(job.fields), TRUE),
               plain |-> typedParams(Vars(NonVariadic(job.fields)), FALSE)]
    /\ pc' = "formatted"
    /\ UNCHANGED <<flags, decl, pkgPath, intName, typedResult, astCalls,
                   interfaceType, declSeen, passedOver, stdPkgs, astResult,
                   result, imports, fileCreated, output, job>>

NextFormat ==
    \/ FormatNodeCall
    \/ FormatFuncResultsCall
    \/ CallParamsCall
    \/ TypedParamsCall

SpecFormat == InitFormat /\ [][NextFormat]_vars

(* ------------- the walk over the packages of one directory ------------- *)

\* A type declaration as the callback of ast.Inspect sees it.
TypeSpec(name, isInterface) == [name |-> name, isInterface |-> isInterface]

\* Source files, each the type declarations of the file in the order
\* ast.Inspect reaches them; a declaration local to a function body comes
\* after the package-level ones before it.
SourceFiles ==
    {<< >>,
     <<TypeSpec("I", TRUE)>>,
     <<TypeSpec("I", TRUE), TypeSpec("I", TRUE)>>,
     <<TypeSpec("I", FALSE), TypeSpec("I", TRUE)>>,
     <<TypeSpec("J", TRUE)>>}

\* The files of a package and the packages of a directory, in the order
\* the range over the map gives them.
SourcePackages ==
    {<<f>> : f \in SourceFiles} \cup {<<f, g>> : f, g \in SourceFiles}
SearchJobs ==
    {[kind |-> "search", intName |-> "I", pkgs |-> ps] :
        ps \in {<<a>> : a \in SourcePackages}
               \cup {<<a, b>> : a, b \in SourcePackages}}

\* The main variables while a function is run on its own.
IdleMain(at) ==
    /\ pc = at
    /\ flags = [structName |-> FALSE, interfaceName |-> << >>,
                outputFile |-> FALSE]
    /\ decl = << >>
    /\ pkgPath = << >>
    /\ intName = << >>
    /\ typedResult = Unset
    /\ astCalls = 0
    /\ interfaceType = "nil"
    /\ declSeen = FALSE
    /\ passedOver = FALSE
    /\ stdPkgs = << >>
    /\ astResult = Unset
    /\ result = Unset
    /\ imports = << >>
    /\ fileCreated = FALSE
    /\ output = NoOutput

\* out is the state of the loops: the package, the file and the next type
\* declaration of the walk, the declaration recorded in interfaceType (its
\* package, file and place, << >> for nil), the files given to ast.Inspect.
InitSearch ==
    /\ IdleMain("search")
    /\ job \in SearchJobs
    /\ out = [set |-> FALSE, p |-> 1, f |-> 1, n |-> 1,
              interfaceType |-> << >>, examined |-> {}]

\* Lines 536-552: the callback on one type declaration.  It records an
\* interface type of the requested name and returns false, which keeps
\* ast.Inspect out of the children of that declaration, not out of the
\* rest of the file.
InspectNode ==
    /\ pc = "search" /\ ~out.set
    /\ LET file == job.pkgs[out.p][out.f]
       IN  /\ out.n <= Len(file)
           /\ out' = [out EXCEPT
                        !.n = @ + 1,
                        !.examined = @ \cup {<<out.p, out.f>>},
                        !.interfaceType =
                            IF /\ file[out.n].name = job.intName
                               /\ file[out.n].isInterface
                            THEN <<out.p, out.f, out.n>> ELSE @]
    /\ UNCHANGED <<pc, flags, decl, pkgPath, intName, typedResult, astCalls,
                   interfaceType, declSeen, passedOver, stdPkgs, astResult,
                   result, imports, fileCreated, output, job>>

\* Lines 554-561: after the walk of a file both loops are left when
\* interfaceType is set; otherwise the next file, then the next package.
InspectFileEnd ==
    /\ pc = "search" /\ ~out.set
    /\ LET pkg == job.pkgs[out.p]
       IN  /\ out.n > Len(pkg[out.f])
           /\ out' =
                 IF out.interfaceType # << >>
                 THEN [out EXCEPT !.set = TRUE,
                                  !.examined = @ \cup {<<out.p, out.f>>}]
                 ELSE IF out.f < Len(pkg)
                 THEN [out EXCEPT !.f = @ + 1, !.n = 1,
                                  !.examined = @ \cup {<<out.p, out.f>>}]
                 ELSE IF out.p < Len(job.pkgs)
                 THEN [out EXCEPT !.p = @ + 1, !.f = 1, !.n = 1,
                                  !.examined = @ \cup {<<out.p, out.f>>}]
                 ELSE [out EXCEPT !.set = TRUE,
                                  !.examined = @ \cup {<<out.p, out.f>>}]
    /\ UNCHANGED <<pc, flags, decl, pkgPath, intName, typedResult, astCalls,
                   interfaceType, declSeen, passedOver, stdPkgs, astResult,
                   result, imports, fileCreated, output, job>>

NextSearch ==
    \/ InspectNode
    \/ InspectFileEnd

SpecSearch == InitSearch /\ [][NextSearch]_vars

(* ---------------- two runs of main on the same inputs ----------------- *)

\* What parser.ParseDir (nil filter, so _test.go files included) gives for
\* the workspace directory: an error, or the names of its packages.
WorkspaceParses ==
    {[err |-> TRUE, names |-> {}],
     [err |-> FALSE, names |-> {}],
     [err |-> FALSE, names |-> {"w"}],
     [err |-> FALSE, names |-> {"w", "w_test"}]}

\* Lines 70-80: currentPkg is assigned for every key of the map of packages,
\* so the key the range gives last stays; it is empty when nothing is
\* assigned.
CurrentPkgs(parse) ==
    IF parse.err \/ parse.names = {} THEN {""} ELSE parse.names

\* The method lists parseInterface returns for the workspace.
RunMethods ==
    {typedMethods(d, own) :
        d \in {<<mA>>, <<mD>>, <<mK>>, <<mG>>, <<mD, mA>>, <<mK, mD>>},
        own \in {PathUniverse}}
    \cup {extractMethodsFromInterface(<<mA, mD>>, << >>)}

RunJobs ==
    {[kind |-> "runs", parse |-> wp, methods |-> ms] :
        wp \in WorkspaceParses, ms \in RunMethods}

InitRuns ==
    /\ IdleMain("runs")
    /\ job \in RunJobs
    /\ out = [set |-> FALSE, runs |-> << >>]

\* main, lines 70-100, and Generate: one run builds the Generator from the
\* package name and the import list and executes the template.
RunMain ==
    /\ pc = "runs" /\ ~out.set
    /\ \E currentPkg \in CurrentPkgs(job.parse),
          importList \in ImportLists(job.methods) :
          out' = [set |-> Len(out.runs) = 1,
                  runs |-> Append(out.runs,
                              [PackageName |-> currentPkg,
                               Methods |-> job.methods,
                               Imports |-> importList,
                               text |-> Execute(StructNameText, <<"I">>,
                                                job.methods, importList)])]
    /\ UNCHANGED <<pc, flags, decl, pkgPath, intName, typedResult, astCalls,
                   interfaceType, declSeen, passedOver, stdPkgs, astResult,
                   result, imports, fileCreated, output, job>>

NextRuns == RunMain

SpecRuns == InitRuns /\ [][NextRuns]_vars

(* ------------------------------ properties ----------------------------- *)

AstPcs == {"ast", "astLocal", "astStd", "astModule", "astGopath", "astModcache",
           "astVendor", "astFinish", "astReturned"}

Succeeded(r) == r.set /\ r.err = "nil"

MethodNames(methods) == [i \in 1..Len(methods) |-> methods[i].MethodName]

\* The declaration of the method of a given name.
MethodByName(name) ==
    CHOOSE m \in {mA, mB, mC, mD, mG, mH, mK} : m.name = name

NoEmbedding(fields) == \A i \in 1..Len(fields) : fields[i].kind = "method"

\* C1: parseInterface returns the typed path's result when the typed path
\* succeeds and never runs the syntactic path then; after any typed failure
\* it calls parseInterfaceWithAST exactly once and returns what that call
\* returned; no typed-path error reaches the caller.
C1_TypedFailureFallsBack ==
    /\ astCalls <= 1
    /\ (typedResult.set /\ typedResult.err = "nil") =>
           (astCalls = 0 /\ pc \notin AstPcs /\ ~astResult.set)
    /\ pc \in AstPcs => (typedResult.set /\ typedResult.err = "logged")
    /\ result.set =>
           /\ result.err \notin TypedFailures
           /\ IF typedResult.err = "nil"
              THEN result = typedResult
              ELSE astCalls = 1 /\ astResult.set /\ result = astResult

C1_Witness ==
    /\ result.set
    /\ typedResult.err = "logged"
    /\ astCalls = 1
    /\ result.err = "nil"
    /\ Len(result.methods) > 0

\* C2: parseInterfaceWithAST returns an error and no methods whenever no
\* directory it examined holds the declaration, and succeeds only when one
\* does.
C2_NotFoundIsAnError ==
    astResult.set =>
        /\ (astResult.err = "nil") <=> declSeen
        /\ astResult.err # "nil" => astResult.methods = << >>

C2_Witness ==
    /\ astResult.set
    /\ pkgPath # << >>
    /\ ~declSeen
    /\ astResult.err = "interface not found"

\* C3: the output file is created only after parseInterface has returned
\* without error, with all three required flags given.
C3_FileOnlyAfterSuccessfulParse ==
    fileCreated =>
        /\ Succeeded(result)
        /\ flags.structName /\ flags.interfaceName # << >> /\ flags.outputFile

C3_Witness == fileCreated /\ pc = "done" /\ typedResult.err = "logged"

\* C4: for an interface without embedding, extraction returns one entry per
\* declared method, entry i named as the i-th declared method.
C4_DeclarationOrder ==
    (Succeeded(result) /\ NoEmbedding(decl)) =>
        /\ Len(result.methods) = Len(decl)
        /\ \A i \in 1..Len(decl) : result.methods[i].MethodName = decl[i].name

\* Every occurrence of a method the path that answered reaches, in
\* declaration order, before any de-duplication.
Occurrences ==
    IF typedResult.err = "nil"
    THEN LET ms == TypedCollect(decl, "own")
         IN  [i \in 1..Len(ms) |-> typedMethod(ms[i], {})]
    ELSE extractMethodsFromInterface(decl, stdPkgs)

Signature(m) == <<m.MethodName, m.Parameters, m.Results>>

\* C5: the method names of a returned method list are pairwise distinct, and
\* of a name reached more than once the entry that remains is the later
\* occurrence.
C5_DistinctNames ==
    Succeeded(result) =>
        /\ \A i, j \in 1..Len(result.methods) :
              i # j => result.methods[i].MethodName # result.methods[j].MethodName
        /\ \A k \in 1..Len(Occurrences) :
              (\A l \in (k + 1)..Len(Occurrences) :
                   Occurrences[l].MethodName # Occurrences[k].MethodName)
              => \E i \in 1..Len(result.methods) :
                     Signature(result.methods[i]) = Signature(Occurrences[k])

\* Whether the syntactic path finds the interface an embedded entry names.
AstResolves(field, pkgs) ==
    /\ field.kind = "embedSelector"
    /\ field.pkg \in DOMAIN pkgs
    /\ field.name \in DOMAIN pkgs[field.pkg]
    /\ pkgs[field.pkg][field.name].isInterface

\* How many methods an entry stands for in the syntactic path.
RECURSIVE BlockLen(_, _)
BlockLen(field, pkgs) ==
    IF field.kind = "method" THEN 1
    ELSE IF AstResolves(field, pkgs)
    THEN LET fs == pkgs[field.pkg][field.name].fields
             RECURSIVE Sum(_)
             Sum(k) == IF k = 0 THEN 0 ELSE BlockLen(fs[k], pkgs) + Sum(k - 1)
         IN  Sum(Len(fs))
    ELSE 0

\* methods is, entry by entry of fields, one method of the declared name or
\* the spliced block of the embedded interface.
RECURSIVE Spliced(_, _, _)
Spliced(fields, methods, pkgs) ==
    LET RECURSIVE Before(_)
        Before(k) == IF k = 1 THEN 0
                     ELSE Before(k - 1) + BlockLen(fields[k - 1], pkgs)
        total == IF Len(fields) = 0 THEN 0
                 ELSE Before(Len(fields)) + BlockLen(fields[Len(fields)], pkgs)
    IN  /\ Len(methods) = total
        /\ \A k \in 1..Len(fields) :
              IF fields[k].kind = "method"
              THEN methods[Before(k) + 1].MethodName = fields[k].name
              ELSE AstResolves(fields[k], pkgs) =>
                      Spliced(pkgs[fields[k].pkg][fields[k].name].fields,
                              SubSeq(methods, Before(k) + 1,
                                     Before(k) + BlockLen(fields[k], pkgs)),
                              pkgs)

\* C6: in the syntactic path the methods of an embedded interface form one
\* contiguous block at the place of the embedding, in that interface's own
\* order, recursively, and the directly declared methods keep their order
\* around it.
C6_EmbeddedMethodsSpliced ==
    Succeeded(astResult) => Spliced(decl, astResult.methods, stdPkgs)

C6_Witness ==
    /\ Succeeded(astResult)
    /\ decl = <<EmbedSelector("p", "E"), mC>>
    /\ MethodNames(astResult.methods) = <<"B", "A", "D", "C">>

\* The binding name parameter k (from 1) of a declared method must have.
BindingName(pvars, k) ==
    IF pvars[k].name = << >> THEN <<"a", "r", "g">> \o Itoa(k - 1)
    ELSE pvars[k].name

\* C7: every parameter entry of every returned method is "name type" with
\* the declared name, or arg<j> for an unnamed parameter at index j, so that
\* callParams forwards that name.
C7_ParametersHaveNames ==
    Succeeded(result) =>
        \A i \in 1..Len(result.methods) :
            LET m == result.methods[i]
                pvars == Vars(MethodByName(m.MethodName).params)
            IN  /\ Len(m.Parameters) = Len(pvars)
                /\ \A k \in 1..Len(pvars) :
                      /\ FirstWord(m.Parameters[k]) = BindingName(pvars, k)
                      /\ Len(m.Parameters[k]) > Len(BindingName(pvars, k)) + 1
                /\ paramNames(m.Parameters) =
                      [k \in 1..Len(pvars) |-> BindingName(pvars, k)]

\* C8: a variadic last parameter is rendered "name ...elem" by both paths.
C8_VariadicMarkerKept ==
    Succeeded(result) =>
        \A i \in 1..Len(result.methods) :
            LET m == result.methods[i]
                pvars == Vars(MethodByName(m.MethodName).params)
                n == Len(pvars)
            IN  (n > 0 /\ pvars[n].type.kind = "Ellipsis") =>
                    /\ Len(m.Parameters) = n
                    /\ m.Parameters[n] =
                          pvars[n].name \o <<" ", ".", ".", ".">> \o
                          formatNode(pvars[n].type.elt)

\* The packages whose symbols the signatures of the returned methods use.
UsedPaths(methods) ==
    UNION {MethodPaths(MethodByName(methods[i].MethodName)) :
           i \in 1..Len(methods)}

\* C9: every import path of Generator.Imports is the path of a package of
\* which a parameter or result type of an extracted method uses a symbol.
C9_ImportsAreUsed ==
    \A i \in 1..Len(imports) : imports[i] \in UsedPaths(result.methods)

\* C10: Generator.Imports holds each import path at most once.
C10_ImportsDeduplicated ==
    \A i, j \in 1..Len(imports) : i # j => imports[i] # imports[j]

\* C11: for every method either path returns, every package of which a
\* parameter or result type uses a symbol is marked as in use in the
\* method's import set, and, once main has filled the Generator, is in
\* Generator.Imports.
C11_UsedPackagesImported ==
    Succeeded(result) =>
        /\ \A i \in 1..Len(result.methods) :
              MethodPaths(MethodByName(result.methods[i].MethodName))
                  \subseteq InUse(result.methods[i])
        /\ pc \in {"generate", "done"} =>
              UsedPaths(result.methods) \subseteq SeqRange(imports)

\* C12: parseInterface takes as interface name the text after the last '.'
\* of the reference and as qualifier the whole text before it, unchanged;
\* a reference without '.' is the name, with the empty qualifier.
C12_SplitAtLastDot ==
    typedResult.set =>
        LET r == flags.interfaceName
        IN  IF "." \notin SeqRange(r)
            THEN intName = r /\ pkgPath = << >>
            ELSE /\ pkgPath \o <<".">> \o intName = r
                 /\ "." \notin SeqRange(intName)

C12_Witness ==
    /\ typedResult.set
    /\ flags.interfaceName = <<"g", ".", "c", "/", "p", ".", "I">>
    /\ pkgPath = <<"g", ".", "c", "/", "p">>
    /\ intName = <<"I">>

OutsideKinds == {"StructType", "Ellipsis", "ParenExpr", "IndexExpr"}
KindText(kind) ==
    CASE kind = "StructType" -> <<"S", "t", "r", "u", "c", "t", "T", "y", "p", "e">>
      [] kind = "Ellipsis" -> <<"E", "l", "l", "i", "p", "s", "i", "s">>
      [] kind = "ParenExpr" -> <<"P", "a", "r", "e", "n", "E", "x", "p", "r">>
      [] kind = "IndexExpr" -> <<"I", "n", "d", "e", "x", "E", "x", "p", "r">>

\* C14: formatNode returns a text for every type expression; for a kind
\* outside its cases the text is the marker "/* unsupported: *ast.<Kind> */";
\* the extraction of an interface with a member of that type returns all
\* its methods, the affected one with the marker as its parameter type.
C14_FormatNodeTotal ==
    (job.kind = "node" /\ out.set) =>
        /\ Len(out.text) > 0
        /\ job.node.kind \in OutsideKinds =>
              out.text = <<"/", "*", " ", "u", "n", "s", "u", "p", "p", "o", "r",
                           "t", "e", "d", ":", " ", "*", "a", "s", "t", ".">>
                         \o KindText(job.node.kind) \o <<" ", "*", "/">>
        /\ MethodNames(out.methods) = <<"M", "H">>
        /\ out.methods[1].Parameters = <<<<"x", " ">> \o out.text>>

C14_Witness ==
    /\ job.kind = "node" /\ out.set
    /\ job.node = IndexExpr(tInt, tInt)
    /\ Len(out.methods) = 2

\* The text of one declared result: "name type", or the type alone.
ResultEntry(v) ==
    IF v.name = << >> THEN formatNode(v.type)
    ELSE v.name \o <<" ">> \o formatNode(v.type)

\* C15: formatFuncResults gives the empty text for no result, " T" for a
\* single unnamed result of type T, and for every other list " (" and ")"
\* around the entries joined by ", ", in declaration order, an entry being
\* "name type" for a named result and the type for an unnamed one.
C15_FuncResultsShape ==
    (job.kind = "results" /\ out.set) =>
        LET rs == Vars(job.fields)
        IN  IF Len(rs) = 0 THEN out.text = << >>
            ELSE IF Len(rs) = 1 /\ rs[1].name = << >>
            THEN out.text = <<" ">> \o formatNode(rs[1].type)
            ELSE out.text =
                    <<" ", "(">> \o
                    Join([k \in 1..Len(rs) |-> ResultEntry(rs[k])], <<",", " ">>)
                    \o <<")">>

C15_Witness ==
    /\ job.kind = "results" /\ out.set
    /\ job.fields = <<Field(<<"r">>, tInt), Field(<< >>, tFsF)>>
    /\ out.text = <<" ", "(", "r", " ", "i", "n", "t", ",", " ", "f", "s", ".",
                    "F", ")">>

\* C16: for parameter entries "name type", callParams gives the names, in
\* order, joined by ", " between "(" and ")", the name being the text before
\* the first space also when the type has spaces; no entry gives "()".
C16_CallParamsNames ==
    (job.kind = "call" /\ out.set) =>
        out.text =
            <<"(">> \o
            Join([k \in 1..Len(job.fields) |-> <<job.fields[k].names[1]>>],
                 <<",", " ">>)
            \o <<")">>

C16_Witness ==
    /\ job.kind = "call" /\ out.set
    /\ job.fields =
          <<Field(<<"f">>, FuncType(<<Field(<<"a">>, tInt)>>,
                                    <<Field(<< >>, tError)>>)),
            Field(<<"c">>, MapType(tString, ChanType("SEND", tInt)))>>
    /\ out.text = <<"(", "f", ",", " ", "c", ")">>

StartsWith(s, prefix) ==
    Len(s) >= Len(prefix) /\ SubSeq(s, 1, Len(prefix)) = prefix

\* C17: the generated adapter declares the struct _<Iface>_ with one
\* function-typed field <Method>_ per extracted method and one forwarding
\* method <Method> per extracted method, whose body calls the field with
\* the names of the method's parameters in declared order, after "return"
\* exactly when the method has results; the -struct name is declared as an
\* alias of _<Iface>_, <Iface> being the reference without its qualifier.
C17_AdapterShape ==
    pc = "done" =>
        LET ms == result.methods
            iface == <<"_">> \o intName \o <<"_">>
            impl == toLower(intName) \o <<"_", "i", "m", "p", "l">>
        IN  /\ output.written
            /\ output.structLine =
                  <<"t", "y", "p", "e", " ">> \o iface \o
                  <<" ", "s", "t", "r", "u", "c", "t", " ", "{">>
            /\ Len(output.fieldLines) = Len(ms)
            /\ Len(output.funcs) = Len(ms)
            /\ \A i \in 1..Len(ms) :
                  LET d == MethodByName(ms[i].MethodName)
                      name == ms[i].MethodName
                      pvars == Vars(d.params)
                  IN  /\ StartsWith(output.fieldLines[i],
                             <<"\t", name, "_", " ", "f", "u", "n", "c", "(">>)
                      /\ StartsWith(output.funcs[i].header,
                             <<"f", "u", "n", "c", " ", "(">> \o impl \o <<" ">>
                             \o iface \o <<")", " ", name, "(">>)
                      /\ output.funcs[i].body =
                             <<"\t">> \o
                             (IF Len(Vars(d.results)) > 0
                              THEN <<"r", "e", "t", "u", "r", "n", " ">>
                              ELSE << >>) \o
                             impl \o <<".", name, "_", "(">> \o
                             Join([k \in 1..Len(pvars) |-> BindingName(pvars, k)],
                                  <<",", " ">>) \o <<")">>
            /\ output.aliasLine =
                  <<"t", "y", "p", "e", " ">> \o StructNameText \o
                  <<" ", "=", " ">> \o iface

\* The steps of the qualified search in the order of the code, and the
\* strategy each one is.
SearchPcs == <<"astStd", "astModule", "astGopath", "astModcache", "astVendor">>
StrategyAt(p) ==
    CASE p = "astStd" -> "std"
      [] p = "astModule" -> "module"
      [] p = "astGopath" -> "gopath"
      [] p = "astModcache" -> "modcache"
      [] p = "astVendor" -> "vendor"
SearchRank(p) == CHOOSE i \in 1..Len(SearchPcs) : SearchPcs[i] = p
AfterSearch(p) ==
    IF SearchRank(p) = Len(SearchPcs) THEN "astFinish"
    ELSE SearchPcs[SearchRank(p) + 1]

\* a step of a search strategy: it is taken only while nothing has been
\* found; finding the declaration ends the search with that declaration,
\* finding none (the directory may be missing or unparseable) leads to the
\* next strategy and sets no error.
SearchStep ==
    (pc \in SeqRange(SearchPcs)) =>
        /\ interfaceType = "nil" /\ ~declSeen
        /\ IF interfaceType' # "nil"
           THEN interfaceType' = StrategyAt(pc) /\ pc' = "astFinish"
           ELSE pc' = AfterSearch(pc)
        /\ astResult' = astResult /\ ~astResult.set

C19_BareEmbedResolved ==
    Succeeded(astResult) =>
        \A k \in 1..Len(decl) :
            (decl[k].kind = "embedIdent" /\ LocalPackage[decl[k].name].isInterface)
            => LET before == Len(extractMethodsFromInterface(
                                     SubSeq(decl, 1, k - 1), stdPkgs))
                   own == LocalPackage[decl[k].name].fields
                   names == [i \in 1..Len(own) |-> own[i].name]
               IN  /\ Len(astResult.methods) >= before + Len(names)
                   /\ SubSeq(MethodNames(astResult.methods), before + 1,
                             before + Len(names)) = names

\* The method names of the interfaces of package p, embedded ones included.
LibMethodNames(x) ==
    CASE x = "F" -> <<"A">>
      [] x = "E" -> <<"B", "A", "D">>
      [] OTHER -> << >>

C21_FirstMatchKept ==
    (job.kind = "search" /\ out.interfaceType # << >>) =>
        LET p == out.interfaceType[1]
            f == out.interfaceType[2]
            n == out.interfaceType[3]
            file == job.pkgs[p][f]
        IN  /\ \A k \in 1..(n - 1) :
                  ~(file[k].name = job.intName /\ file[k].isInterface)
            /\ \A e \in out.examined :
                  e[1] < p \/ (e[1] = p /\ e[2] <= f)

\* C22: the two result renderers agree: for every result field list,
\* formatMethodResults on the entries of extractParams gives the text that
\* formatFuncResults gives, so a single unnamed result T is " T" in both.
C22_ResultRenderersAgree ==
    (job.kind = "results" /\ out.set) => out.method = out.text

\* C23: in the syntactic path the outcome for a qualified reference does not
\* depend on the workspace directory's own sources: the search of the
\* standard distribution, module directory, module cache and vendor copy is
\* made also when the workspace directory fails to parse, so the only error
\* a qualified reference can end with is "interface not found".
C23_QualifiedIgnoresWorkspace ==
    (astResult.set /\ pkgPath # << >> /\ astResult.err # "nil") =>
        astResult.err = "interface not found"

\* C24: in the typed path the element type of a variadic last parameter is
\* rendered with the package qualification the same type has in a position
\* that is not variadic: where the latter is "name p.T", the variadic
\* parameter is "name ...p.T".
C24_VariadicQualified ==
    (job.kind = "variadic" /\ out.set) =>
        LET n == Len(out.params)
            name == FirstWord(out.plain[n])
            plainType == SubSeq(out.plain[n], Len(name) + 2, Len(out.plain[n]))
        IN  out.params[n] = NameType(name, <<".", ".", ".">> \o plainType)

\* C25: generation is deterministic: two runs on the same flags and the same
\* file system build the same Generator (package name, import paths in
\* order, methods in order) and write the same text.
C25_Deterministic ==
    (job.kind = "runs" /\ Len(out.runs) = 2) => out.runs[1] = out.runs[2]

====
